---- MODULE Spec2Model ----
(***************************************************************************)
(* PresentationEngine: the slide deck state machine, its timers and frame  *)
(* callbacks, the responsive scaling of the presentation surface, the      *)
(* section banner, the navigation chrome and the per-slide animations.     *)
(*                                                                         *)
(* Two variants of the engine are modelled, selected by `variant`:         *)
(*   "latest"   src/assets/js/presentation.js, lines 402-971               *)
(*   "earliest" src/unnamed/part_000                                       *)
(* (lines 1-401 of presentation.js hold a middle variant: the latest one   *)
(* without the section banner and without the hiding of the chrome).       *)
(*                                                                         *)
(* Time is discrete.  A timer holds the time left until its deadline; Tick *)
(* lets time pass, never beyond the next deadline, and a timer whose time  *)
(* is up runs before time passes again, the oldest first.  Input events    *)
(* may arrive at every instant of the grid.  Frame callbacks run in the    *)
(* order of their request; the callbacks of one frame run back to back.    *)
(*                                                                         *)
(* Scales are fixed-point numbers in millionths (0.4 is 400000), ratios    *)
(* and margins are in hundredths (0.95 is 95, a pixel ratio of 1.5 is 150).*)
(***************************************************************************)
EXTENDS Integers, Sequences, FiniteSets, TLC

----------------------------------------------------------------------------
(* Bounds of the model *)

\* the deck has 1..MaxSlides slides
MaxSlides == 3
\* at most this many deferred goToSlide refreshes are pending at once
MaxPendingRefresh == 2
\* at most this many fullscreen changes have their scaleToFit timer pending
MaxPendingFullscreen == 1
\* at most this many overflow-check callbacks are requested and not yet run
MaxPendingFrames == 1
\* a counter is not stepped further than this far from 0
MaxCount == 4

----------------------------------------------------------------------------
(* Program constants *)

baseWidth == 1920
baseHeight == 1080
RefreshDelay == 10
AnimDelay == 300
UnlockDelay == 600
ResizeDebounce == 150
FullscreenDelay == 100
ChromeIdle == 2000
BannerDuration == 1000
BannerFade == 400
RingDelay == 100
NumberDuration == 1000
\* in hundredths
MarginFullscreen == 100
MarginCritical == 88
MarginSmall == 96
MarginProblem == 92
MarginDense == 94
MarginStandard == 95
MarginCheck == 90
FactorLarge == 96
FactorSmall == 98
\* in millionths
minScale == 400000
maxScale == 1500000
tolerance == 2
LargeOverflow == 20

Sections ==
    << [number |-> 1, startSlide |-> 1, endSlide |-> 3],
       [number |-> 2, startSlide |-> 4, endSlide |-> 5],
       [number |-> 3, startSlide |-> 6, endSlide |-> 8],
       [number |-> 4, startSlide |-> 9, endSlide |-> 9] >>

VARIABLES
    \* the page and the variant, fixed at construction
    variant,          \* "latest" or "earliest"
    totalSlides,      \* this.totalSlides = this.slides.length
    hasSectionIndicator,  \* the page holds #sectionIndicator
    hasNavigation,    \* the page holds .navigation
    numberTargets,    \* numberTargets[i]: the data-animate-number values of slide i
    ringSlide,        \* the slide that holds .progress-ring, or -1
    \* the deck
    currentSlide,     \* this.currentSlide
    isTransitioning,  \* this.isTransitioning
    slides,           \* slides[i]: the classList of slide i
    indicators,       \* indicators[i]: the classList of indicator i
    progressBar,      \* height of .slide-progress in percent, as num/den
    \* the scheduler
    timers,           \* pending setTimeout/setInterval callbacks, in creation order
    frames,           \* requested animation-frame callbacks, in request order
    frameLeft,        \* callbacks of the running frame still to run
    \* the browser
    viewport,         \* window.innerWidth, innerHeight, devicePixelRatio
    fullscreen,       \* document.fullscreenElement is set
    \* scaling
    isScaling,        \* this.isScaling
    transform,        \* container.style.transform
    resizeTimeout,    \* this.resizeTimeout (0 is null)
    \* the section banner
    bannerClasses,    \* the classList of #sectionIndicator
    bannerSection,    \* data-section (0 before the first banner)
    sectionIndicatorTimer,  \* this.sectionIndicatorTimer (0 is null)
    \* the navigation chrome
    navFullscreen,    \* .navigation carries the class fullscreen
    navStyle,         \* the inline opacity/transform/pointerEvents of .navigation
    navTransition,    \* .navigation carries the inline transition
    mouseTimer,       \* this.mouseTimer (0 is null)
    \* the animations
    display,          \* display[<<i, p>>]: what number element p of slide i shows
    ring,             \* the progress ring's inline style
    \* history
    event,            \* the handler or callback that ran last
    cycleStart,       \* currentSlide when the running series of nextSlide calls began
    cycleCount,       \* nextSlide calls of the series, each issued while Idle
    shown,            \* the values written to each number element, in order
    measured          \* the overshoots the overflow check measured last

configVars == <<variant, totalSlides, hasSectionIndicator, hasNavigation,
                numberTargets, ringSlide>>
deckVars == <<currentSlide, isTransitioning, slides, indicators, progressBar>>
envVars == <<viewport, fullscreen>>
scaleVars == <<isScaling, transform, resizeTimeout>>
bannerVars == <<bannerClasses, bannerSection, sectionIndicatorTimer>>
chromeVars == <<navFullscreen, navStyle, navTransition, mouseTimer>>
animVars == <<display, ring>>
cycleVars == <<cycleStart, cycleCount>>
vars == <<variant, totalSlides, hasSectionIndicator, hasNavigation, numberTargets,
          ringSlide, currentSlide, isTransitioning, slides, indicators,
          progressBar, timers, frames, frameLeft, viewport, fullscreen,
          isScaling, transform, resizeTimeout, bannerClasses, bannerSection,
          sectionIndicatorTimer, navFullscreen, navStyle, navTransition,
          mouseTimer, display, ring, event, cycleStart, cycleCount, shown,
          measured>>

SlideIndex == 0 .. (totalSlides - 1)

Ev(op, arg, ok) == [op |-> op, arg |-> arg, ok |-> ok]

\* no frame is running: handlers and timers run between frames only
Ready == frameLeft = 0

----------------------------------------------------------------------------
(* Timers *)

MkTimer(id, kind, rem, arg) ==
    [id |-> id, kind |-> kind, rem |-> rem, arg |-> arg,
     per |-> 0, cur |-> 0, el |-> <<>>]

TimerIds(ts) == {ts[k].id : k \in DOMAIN ts}

\* a timer id that no pending timer and none of the handles in `held` uses
FreshId(ts, held) ==
    CHOOSE n \in 1 .. (Len(ts) + Cardinality(held) + 1) :
        /\ n \notin TimerIds(ts)
        /\ n \notin held
        /\ \A m \in 1 .. (n - 1) : m \in TimerIds(ts) \cup held

\* setTimeout whose handle the program drops
SetTimeout(ts, kind, delay, arg) == Append(ts, MkTimer(0, kind, delay, arg))

\* setTimeout whose handle the program stores: the handle is id
SetTimeoutAs(ts, id, kind, delay, arg) == Append(ts, MkTimer(id, kind, delay, arg))

RemoveAt(ts, k) ==
    [j \in 1 .. (Len(ts) - 1) |-> IF j < k THEN ts[j] ELSE ts[j + 1]]

RECURSIVE ClearTimeout(_, _)
ClearTimeout(ts, id) ==
    IF id = 0 \/ \A k \in DOMAIN ts : ts[k].id # id
    THEN ts
    ELSE ClearTimeout(RemoveAt(ts, CHOOSE k \in DOMAIN ts : ts[k].id = id), id)

Pending(ts, kind) == {k \in DOMAIN ts : ts[k].kind = kind}

\* the timer at position k is the next to run
Due(k) ==
    /\ k \in DOMAIN timers
    /\ timers[k].rem = 0
    /\ \A j \in 1 .. (k - 1) : timers[j].rem # 0

MinRem(ts) ==
    CHOOSE m \in {ts[k].rem : k \in DOMAIN ts} : \A k \in DOMAIN ts : m <= ts[k].rem

Min2(a, b) == IF a < b THEN a ELSE b
Max2(a, b) == IF a > b THEN a ELSE b

----------------------------------------------------------------------------
(* Scaling: scaleToFit and checkAndFixOverflow *)

MkFrame(kind, arg, w, h) == [kind |-> kind, arg |-> arg, w |-> w, h |-> h]

\* window.devicePixelRatio || 1
Dpr(vp) == IF vp.dpr = 0 THEN 100 ELSE vp.dpr

\* a margin table whose high-density row also takes pixel ratio 1
MarginDenseAtOne(vp, fs) ==
    IF fs THEN MarginFullscreen
    ELSE IF vp.w <= 1280 /\ Dpr(vp) >= 150 THEN MarginCritical
    ELSE IF vp.w < 1280 \/ vp.h < 720 THEN MarginSmall
    ELSE IF vp.w < 1600 /\ (Dpr(vp) > 100 \/ vp.w < 1440) THEN MarginProblem
    ELSE IF Dpr(vp) >= 100 THEN MarginDense
    ELSE MarginStandard

\* a margin table that tries the small-viewport row before the critical one
MarginSmallFirst(vp, fs) ==
    IF fs THEN MarginFullscreen
    ELSE IF vp.w < 1280 \/ vp.h < 720 THEN MarginSmall
    ELSE IF vp.w <= 1280 /\ Dpr(vp) >= 150 THEN MarginCritical
    ELSE IF vp.w < 1600 /\ (Dpr(vp) > 100 \/ vp.w < 1440) THEN MarginProblem
    ELSE IF Dpr(vp) > 150 THEN MarginDense
    ELSE MarginStandard

\* the margin table of scaleToFit, first match wins
Margin(vp, fs) ==
    IF fs THEN MarginFullscreen
    ELSE IF vp.w <= 1280 /\ Dpr(vp) >= 150 THEN MarginCritical
    ELSE IF vp.w < 1280 \/ vp.h < 720 THEN MarginSmall
    ELSE IF vp.w < 1600 /\ (Dpr(vp) > 100 \/ vp.w < 1440) THEN MarginProblem
    ELSE IF Dpr(vp) > 150 THEN MarginDense
    ELSE MarginStandard

\* min(w / baseWidth, h / baseHeight) * margin, in millionths:
\* w / 1920 = 9 w / 17280, h / 1080 = 16 h / 17280, 10^4 / 17280 = 125 / 216
ScaledBase(vp, fs) ==
    (Min2(vp.w * (baseHeight \div 120), vp.h * (baseWidth \div 120))
        * Margin(vp, fs) * 125) \div 216

\* Math.max(minScale, Math.min(maxScale, scale))
Clamp(s) == Max2(minScale, Min2(maxScale, s))

FitScale(vp, fs) == Clamp(ScaledBase(vp, fs))

\* scaleToFit without its isScaling guard
ScaleToFitNeverSkips == FALSE

\* the guard of scaleToFit; the earliest variant has none
ScaleToFitSkips == variant = "latest" /\ isScaling

\* a scaleToFit that checks for overflow only above the 0.92 margin
ChecksOverflowAboveProblem(vp, fs) == Margin(vp, fs) > MarginProblem

\* scaleToFit schedules the overflow check
ChecksOverflow(vp, fs) == Margin(vp, fs) > MarginCheck

\* a scaleToFit that resets isScaling before its overflow check has run
ScaleToFitReleasesAtOnce(fr, vp, fs) ==
    IF ScaleToFitSkips
    THEN /\ frames' = fr
         /\ UNCHANGED <<isScaling, transform>>
    ELSE /\ transform' = [translate |-> TRUE, scale |-> FitScale(vp, fs)]
         /\ isScaling' = FALSE
         /\ frames' = IF ChecksOverflow(vp, fs)
                      THEN Append(fr, MkFrame("overflow", FitScale(vp, fs), 0, 0))
                      ELSE fr

\* scaleToFit(), reading the viewport vp and the fullscreen state fs, called
\* with the frame callbacks fr its caller leaves
ScaleToFit(fr, vp, fs) ==
    IF ScaleToFitSkips
    THEN /\ frames' = fr
         /\ UNCHANGED <<isScaling, transform>>
    ELSE /\ transform' = [translate |-> TRUE, scale |-> FitScale(vp, fs)]
         /\ IF ChecksOverflow(vp, fs)
            THEN /\ frames' = Append(fr, MkFrame("overflow", FitScale(vp, fs), 0, 0))
                 /\ isScaling' = (variant = "latest")
            ELSE /\ frames' = fr
                 /\ isScaling' = FALSE

\* an overflow that looks at the right edge only
MaxOverflowRight(m) == Max2(0, m.right)

\* what getBoundingClientRect measures, as the overshoot of each edge of
\* the surface over the viewport (negative: the edge lies inside)
Overshoots == {-5, 2, 3, 20, 21}
Measurements ==
    [right : Overshoots, bottom : {-5, 21}, left : {-5, 3}, top : {-5, 3}]

HasOverflow(m) ==
    \/ m.right > tolerance
    \/ m.bottom > tolerance
    \/ m.left > tolerance
    \/ m.top > tolerance

MaxOverflow(m) ==
    Max2(Max2(Max2(0, m.right), Max2(0, m.bottom)),
         Max2(Max2(0, m.left), Max2(0, m.top)))

\* a correction that leaves the scale as it is
AdjustmentFactorNone(m) == 100

\* a correction that applies its factor twice
AdjustmentFactorTwice(m) ==
    IF MaxOverflow(m) > LargeOverflow
    THEN (FactorLarge * FactorLarge) \div 100
    ELSE (FactorSmall * FactorSmall) \div 100

AdjustmentFactor(m) == IF MaxOverflow(m) > LargeOverflow THEN FactorLarge ELSE FactorSmall

AdjustedScale(currentScale, m) == (currentScale * AdjustmentFactor(m)) \div 100

\* the transform checkAndFixOverflow writes when it measures an overflow
FixedTransform(currentScale, m) ==
    [translate |-> (variant = "latest"), scale |-> AdjustedScale(currentScale, m)]

\* the measurement m against the viewport of w by h the callback closed over
StillOverflow(m, w, h) ==
    \/ m.right + (viewport.w - w) > tolerance
    \/ m.bottom + (viewport.h - h) > tolerance
    \/ m.left > tolerance
    \/ m.top > tolerance

\* a frame callback runs: the oldest request, and a frame runs all the
\* callbacks that were requested before it began
RunsFrame(kind) ==
    /\ frames # <<>>
    /\ frames[1].kind = kind
    /\ frameLeft' = (IF frameLeft = 0 THEN Len(frames) ELSE frameLeft) - 1

\* the callback scaleToFit requests: checkAndFixOverflow(scale), where
\* getBoundingClientRect measures m
OverflowMeasured(m) ==
    /\ RunsFrame("overflow")
    /\ transform' = IF HasOverflow(m)
                    THEN FixedTransform(frames[1].arg, m)
                    ELSE transform
    /\ frames' = IF variant = "earliest" /\ HasOverflow(m)
                 THEN Append(Tail(frames),
                             MkFrame("recheck", AdjustedScale(frames[1].arg, m),
                                     viewport.w, viewport.h))
                 ELSE Tail(frames)
    /\ isScaling' = FALSE
    /\ event' = Ev("overflowCheck", frames[1].arg, FALSE)
    /\ UNCHANGED <<configVars, deckVars, envVars, resizeTimeout, timers,
                   bannerVars, chromeVars, animVars>>

OverflowFrame == \E m \in Measurements : OverflowMeasured(m)

\* the callback the earliest checkAndFixOverflow requests: measure again
\* and, on overflow with the scale above 0.4, checkAndFixOverflow once more
RecheckFrame ==
    /\ RunsFrame("recheck")
    /\ \E m \in Measurements :
        LET again == /\ StillOverflow(m, frames[1].w, frames[1].h)
                     /\ frames[1].arg > minScale
                     /\ HasOverflow(m)
        IN /\ transform' = IF again THEN FixedTransform(frames[1].arg, m)
                           ELSE transform
           /\ frames' = IF again
                        THEN Append(Tail(frames),
                                    MkFrame("recheck", AdjustedScale(frames[1].arg, m),
                                            viewport.w, viewport.h))
                        ELSE Tail(frames)
    /\ event' = Ev("recheck", frames[1].arg, FALSE)
    /\ UNCHANGED <<configVars, deckVars, envVars, isScaling, resizeTimeout, timers,
                   bannerVars, chromeVars, animVars>>

----------------------------------------------------------------------------
(* Section banner and navigation chrome *)

Handles == {resizeTimeout, sectionIndicatorTimer, mouseTimer}

\* a find that takes the first section for every slide
SectionAtFirst(slideIndex) == 1

\* this.sections.find(s => s.startSlide === slideIndex): its position, or 0
SectionAt(slideIndex) ==
    IF \E k \in DOMAIN Sections : Sections[k].startSlide = slideIndex
    THEN CHOOSE k \in DOMAIN Sections :
            /\ Sections[k].startSlide = slideIndex
            /\ \A j \in 1 .. (k - 1) : Sections[j].startSlide # slideIndex
    ELSE 0

\* checkAndShowSectionIndicator(slideIndex) calls showSectionIndicator
ShowsSection(slideIndex) == SectionAt(slideIndex) # 0 /\ slideIndex # 0

\* showSectionIndicator goes past its existence check
ShowsBanner(slideIndex) ==
    variant = "latest" /\ ShowsSection(slideIndex) /\ hasSectionIndicator

\* the id of the timer showSectionIndicator sets
BannerTimerId(ts) ==
    FreshId(ClearTimeout(ts, sectionIndicatorTimer), {resizeTimeout, mouseTimer})

\* the timers showSectionIndicator leaves: the old hide timer cleared, a new one set
BannerTimers(ts) ==
    SetTimeoutAs(ClearTimeout(ts, sectionIndicatorTimer), BannerTimerId(ts),
                 "bannerHide", BannerDuration, 0)

\* a hideNavigationInFullscreen that does not look at the fullscreen state
HiddenStyleAnywhere == IF hasNavigation THEN "hidden" ELSE navStyle

\* the style hideNavigationInFullscreen leaves
HiddenStyle == IF fullscreen /\ hasNavigation THEN "hidden" ELSE navStyle

\* the style showNavigation leaves
ShownStyle == IF hasNavigation THEN "" ELSE navStyle

\* the frame callback of showSectionIndicator: the banner becomes active and,
\* in fullscreen, showNavigationTemporarily
BannerFrame ==
    /\ RunsFrame("banner")
    /\ frames' = Tail(frames)
    /\ bannerClasses' = bannerClasses \cup {"active"}
    /\ IF fullscreen /\ hasNavigation
       THEN /\ navStyle' = "temp"
            /\ navTransition' = TRUE
            /\ timers' = SetTimeout(timers, "tempHide", ChromeIdle, 0)
       ELSE UNCHANGED <<navStyle, navTransition, timers>>
    /\ event' = Ev("bannerFrame", bannerSection, FALSE)
    /\ UNCHANGED <<configVars, deckVars, envVars, scaleVars, bannerSection,
                   sectionIndicatorTimer, navFullscreen, mouseTimer, animVars>>

\* the timer of showSectionIndicator: hideSectionIndicator
BannerHideTimer(k) ==
    /\ Ready
    /\ Due(k)
    /\ timers[k].kind = "bannerHide"
    /\ bannerClasses' = bannerClasses \cup {"fade-out"}
    /\ timers' = SetTimeout(RemoveAt(timers, k), "bannerFade", BannerFade, 0)
    /\ event' = Ev("bannerHide", bannerSection, FALSE)
    /\ UNCHANGED <<configVars, deckVars, envVars, scaleVars, bannerSection,
                   sectionIndicatorTimer, chromeVars, animVars, frames, frameLeft>>

\* the timer of hideSectionIndicator
BannerFadeTimer(k) ==
    /\ Ready
    /\ Due(k)
    /\ timers[k].kind = "bannerFade"
    /\ bannerClasses' = bannerClasses \ {"active", "fade-out"}
    /\ timers' = RemoveAt(timers, k)
    /\ event' = Ev("bannerFade", bannerSection, FALSE)
    /\ UNCHANGED <<configVars, deckVars, envVars, scaleVars, bannerSection,
                   sectionIndicatorTimer, chromeVars, animVars, frames, frameLeft>>

\* the timers that call hideNavigationInFullscreen: of handleFullscreenChange
\* ("fsHide"), of showNavigationTemporarily ("tempHide"), of mousemove ("mouse")
HideTimer(k) ==
    /\ Ready
    /\ Due(k)
    /\ timers[k].kind \in {"fsHide", "tempHide", "mouse"}
    /\ navStyle' = HiddenStyle
    /\ timers' = RemoveAt(timers, k)
    /\ event' = Ev(timers[k].kind, 0, FALSE)
    /\ UNCHANGED <<configVars, deckVars, envVars, scaleVars, bannerVars,
                   navFullscreen, navTransition, mouseTimer, animVars,
                   frames, frameLeft>>

\* the mousemove listener of init (latest variant)
MouseMove ==
    /\ Ready
    /\ event' = Ev("mousemove", 0, FALSE)
    /\ IF variant = "latest" /\ fullscreen
       THEN /\ navStyle' = ShownStyle
            /\ mouseTimer' = FreshId(ClearTimeout(timers, mouseTimer),
                                     {resizeTimeout, sectionIndicatorTimer})
            /\ timers' = SetTimeoutAs(ClearTimeout(timers, mouseTimer), mouseTimer',
                                      "mouse", ChromeIdle, 0)
       ELSE UNCHANGED <<navStyle, mouseTimer, timers>>
    /\ UNCHANGED <<configVars, deckVars, envVars, scaleVars, bannerVars,
                   navFullscreen, navTransition, animVars, frames, frameLeft>>

----------------------------------------------------------------------------
(* Animations: initAnimations, animateNumbers, animateCircularProgress *)

\* Math.abs(Math.floor(duration / range)) with start = 0, so range = end;
\* a range of 0 gives an infinite quotient, which setInterval takes as 0
StepTime(end) ==
    IF end > 0 THEN NumberDuration \div end
    ELSE IF end < 0 THEN (NumberDuration + (0 - end) - 1) \div (0 - end)
    ELSE 0

\* a counter whose current value starts at 1
MkIntervalFromOne(i, p, end) ==
    [id |-> 0, kind |-> "interval", rem |-> Max2(1, StepTime(end)), arg |-> end,
     per |-> Max2(1, StepTime(end)), cur |-> 1, el |-> <<i, p>>]

\* setInterval(..., stepTime) for number element p of slide i; an interval
\* never repeats faster than once per unit of time
MkInterval(i, p, end) ==
    [id |-> 0, kind |-> "interval", rem |-> Max2(1, StepTime(end)), arg |-> end,
     per |-> Max2(1, StepTime(end)), cur |-> 0, el |-> <<i, p>>]

\* animateNumbers: one interval per number element of slide i, from element p on
RECURSIVE AnimateNumbers(_, _, _, _)
AnimateNumbers(ts, targets, i, p) ==
    IF p > Len(targets[i])
    THEN ts
    ELSE AnimateNumbers(Append(ts, MkInterval(i, p, targets[i][p])), targets, i, p + 1)

\* the timers initAnimations leaves when slide i is the current one
AnimTimers(ts, v, targets, rs, i) ==
    IF v = "earliest" /\ rs = i
    THEN SetTimeout(AnimateNumbers(ts, targets, i, 1), "ring", RingDelay, 0)
    ELSE AnimateNumbers(ts, targets, i, 1)

\* the frame callbacks initAnimations leaves
AnimFrames(fr, v, rs, i) ==
    IF v = "latest" /\ rs = i THEN Append(fr, MkFrame("ring1", 0, 0, 0)) ELSE fr

\* the style animateCircularProgress leaves on the ring right away
AnimRing(r, v, rs, i) ==
    IF rs # i THEN r
    ELSE IF v = "latest" THEN [offset |-> "empty", transition |-> "none"]
    ELSE [r EXCEPT !.offset = "empty"]

\* a step of a counter: the callback of setInterval in animateValue
IntervalTimer(k) ==
    /\ Ready
    /\ Due(k)
    /\ timers[k].kind = "interval"
    /\ LET t == timers[k]
           next == t.cur + (IF t.arg > 0 THEN 1 ELSE -1)
       IN /\ next >= 0 - MaxCount
          /\ next <= MaxCount
          /\ display' = [display EXCEPT ![t.el] = [set |-> TRUE, value |-> next]]
          /\ timers' = IF next = t.arg
                       THEN RemoveAt(timers, k)
                       ELSE [timers EXCEPT ![k] = [t EXCEPT !.cur = next, !.rem = t.per]]
          /\ event' = Ev("interval", next, next = t.arg)
    /\ UNCHANGED <<configVars, deckVars, envVars, scaleVars, bannerVars, chromeVars,
                   ring, frames, frameLeft>>

\* the frame callbacks of animateCircularProgress (latest variant)
RingFrame ==
    /\ frames # <<>>
    /\ frames[1].kind \in {"ring1", "ring2"}
    /\ RunsFrame(frames[1].kind)
    /\ IF frames[1].kind = "ring1"
       THEN /\ ring' = [ring EXCEPT !.transition = "ease"]
            /\ frames' = Append(Tail(frames), MkFrame("ring2", 0, 0, 0))
       ELSE /\ ring' = [ring EXCEPT !.offset = "filled"]
            /\ frames' = Tail(frames)
    /\ event' = Ev(frames[1].kind, 0, FALSE)
    /\ UNCHANGED <<configVars, deckVars, envVars, scaleVars, bannerVars, chromeVars,
                   display, timers>>

\* the timer of animateCircularProgress (earliest variant)
RingTimer(k) ==
    /\ Ready
    /\ Due(k)
    /\ timers[k].kind = "ring"
    /\ ring' = [ring EXCEPT !.offset = "filled"]
    /\ timers' = RemoveAt(timers, k)
    /\ event' = Ev("ring", 0, FALSE)
    /\ UNCHANGED <<configVars, deckVars, envVars, scaleVars, bannerVars, chromeVars,
                   display, frames, frameLeft>>

----------------------------------------------------------------------------
(* Slide deck: showSlide, goToSlide, nextSlide, prevSlide, handleKeyboard *)

\* showSlide without the transition lock of its first line
ShowSlideRejectsUnlocked(index) ==
    \/ index < 0
    \/ index >= totalSlides
    \/ (variant = "earliest" /\ index = currentSlide)

\* showSlide without the range check of its second line
ShowSlideRejectsUnranged(index) ==
    \/ isTransitioning
    \/ (variant = "earliest" /\ index = currentSlide)

\* showSlide with a range check that lets totalSlides itself through
ShowSlideRejectsPastEnd(index) ==
    \/ isTransitioning
    \/ index < 0
    \/ index > totalSlides
    \/ (variant = "earliest" /\ index = currentSlide)

\* the early returns of showSlide
ShowSlideRejects(index) ==
    \/ isTransitioning
    \/ index < 0
    \/ index >= totalSlides
    \/ (variant = "earliest" /\ index = currentSlide)

\* a showSlide that removes 'active' but leaves 'prev' where it was
SlideClassesKeepingPrev(index) ==
    [i \in SlideIndex |->
        (slides[i] \ {"active", "slide-index"})
            \cup (IF i < index THEN {"prev"} ELSE {})
            \cup (IF i = index THEN {"active"} ELSE {})
            \cup (IF i = index /\ i = 0 /\ variant = "latest"
                  THEN {"slide-index"} ELSE {})]

\* the classList of every slide after showSlide(index)
SlideClasses(index) ==
    [i \in SlideIndex |->
        IF variant = "earliest"
        THEN ((slides[i] \ {"active", "prev"})
                \cup (IF i < index THEN {"prev"} ELSE {})
                \cup (IF i = index THEN {"active"} ELSE {}))
        ELSE ((slides[i] \ {"active", "prev", "slide-index"})
                \cup (IF i < index THEN {"prev"} ELSE {})
                \cup (IF i = index THEN {"active"} ELSE {})
                \cup (IF i = index /\ i = 0 THEN {"slide-index"} ELSE {}))]

\* indicators that keep 'active' when another one gets it
IndicatorClassesKeeping(index) ==
    [i \in SlideIndex |->
        indicators[i] \cup (IF i = index THEN {"active"} ELSE {})]

\* the classList of every indicator after showSlide(index)
IndicatorClasses(index) ==
    [i \in SlideIndex |->
        (indicators[i] \ {"active"}) \cup (IF i = index THEN {"active"} ELSE {})]

\* updateProgressBar(index): ((index + 1) / totalSlides) * 100 percent
UpdateProgressBar(index) ==
    IF variant = "earliest"
    THEN progressBar
    ELSE [num |-> (index + 1) * 100, den |-> totalSlides]

\* a showSlide whose animation restart comes after the unlock
ShowSlideTimersLateRestart(index, ts) ==
    SetTimeout(SetTimeout(IF ShowsBanner(index) THEN BannerTimers(ts) ELSE ts,
                          "anim", UnlockDelay + AnimDelay, index),
               "unlock", UnlockDelay, index)

\* a showSlide that sets no unlock timer
ShowSlideTimersNoUnlock(index, ts) ==
    SetTimeout(IF ShowsBanner(index) THEN BannerTimers(ts) ELSE ts,
               "anim", AnimDelay, index)

\* the timers an accepted showSlide(index) leaves: the banner's, then the
\* animation restart, then the unlock
ShowSlideTimers(index, ts) ==
    SetTimeout(SetTimeout(IF ShowsBanner(index) THEN BannerTimers(ts) ELSE ts,
                          "anim", AnimDelay, index),
               "unlock", UnlockDelay, index)

\* showSlide(index), called with the timers ts its caller leaves
ShowSlide(index, ts) ==
    IF ShowSlideRejects(index)
    THEN /\ timers' = ts
         /\ UNCHANGED <<deckVars, bannerVars, frames>>
    ELSE /\ isTransitioning' = TRUE
         /\ slides' = SlideClasses(index)
         /\ indicators' = IndicatorClasses(index)
         /\ progressBar' = UpdateProgressBar(index)
         /\ IF ShowsBanner(index)
            THEN /\ bannerSection' = Sections[SectionAt(index)].number
                 /\ bannerClasses' = bannerClasses \ {"active", "fade-out"}
                 /\ frames' = Append(frames, MkFrame("banner", 0, 0, 0))
                 /\ sectionIndicatorTimer' = BannerTimerId(ts)
            ELSE UNCHANGED <<bannerVars, frames>>
         /\ currentSlide' = index
         /\ timers' = ShowSlideTimers(index, ts)

\* what a handler that only navigates leaves alone
NavFrame == UNCHANGED <<configVars, envVars, scaleVars, chromeVars, animVars, frameLeft>>

\* goToSlide(index): the same slide is refreshed after RefreshDelay
GoToSlideBody(index) ==
    IF variant = "latest" /\ index = currentSlide
    THEN /\ Cardinality(Pending(timers, "refresh")) < MaxPendingRefresh
         /\ slides' = [slides EXCEPT ![index] = @ \ {"active"}]
         /\ timers' = SetTimeout(timers, "refresh", RefreshDelay, index)
         /\ UNCHANGED <<currentSlide, isTransitioning, indicators, progressBar,
                        bannerVars, frames>>
    ELSE ShowSlide(index, timers)

\* goToSlide(index) runs an accepted showSlide right away
GoToAccepts(index) ==
    /\ ~(variant = "latest" /\ index = currentSlide)
    /\ ~ShowSlideRejects(index)

GoToSlide(index) ==
    /\ Ready
    /\ event' = Ev("goToSlide", index, GoToAccepts(index))
    /\ GoToSlideBody(index)
    /\ NavFrame

\* the successor without the wrap-around
NextTargetNoWrap == currentSlide + 1

NextTarget == (currentSlide + 1) % totalSlides

\* the predecessor without the wrap-around
PrevTargetNoWrap == currentSlide - 1

PrevTarget == (currentSlide - 1 + totalSlides) % totalSlides

NextSlide ==
    /\ Ready
    /\ event' = Ev("nextSlide", NextTarget, ~ShowSlideRejects(NextTarget))
    /\ ShowSlide(NextTarget, timers)
    /\ NavFrame

PrevSlide ==
    /\ Ready
    /\ event' = Ev("prevSlide", PrevTarget, ~ShowSlideRejects(PrevTarget))
    /\ ShowSlide(PrevTarget, timers)
    /\ NavFrame

\* parseInt(e.key) for the digit keys
Digit == [k \in {"0", "1", "2", "3", "4", "5", "6", "7", "8", "9"} |->
            CASE k = "0" -> 0 [] k = "1" -> 1 [] k = "2" -> 2 [] k = "3" -> 3
              [] k = "4" -> 4 [] k = "5" -> 5 [] k = "6" -> 6 [] k = "7" -> 7
              [] k = "8" -> 8 [] k = "9" -> 9]

\* e.key >= '1' && e.key <= '9'
IsSlideKey(key) == key \in DOMAIN Digit /\ Digit[key] >= 1

\* a handleKeyboard whose digit d jumps to slide d, not d - 1
HandleKeyboardOffByOne(key) ==
    /\ Ready
    /\ event' = Ev("key", IF key \in DOMAIN Digit THEN Digit[key] ELSE -1,
                   IF key \in {"ArrowRight", " "} THEN ~ShowSlideRejects(NextTarget)
                   ELSE IF key = "ArrowLeft" THEN ~ShowSlideRejects(PrevTarget)
                   ELSE IsSlideKey(key) /\ GoToAccepts(Digit[key]))
    /\ IF key \in {"ArrowRight", " "} THEN ShowSlide(NextTarget, timers)
       ELSE IF key = "ArrowLeft" THEN ShowSlide(PrevTarget, timers)
       ELSE IF IsSlideKey(key) /\ Digit[key] < totalSlides
            THEN GoToSlideBody(Digit[key])
       ELSE UNCHANGED <<deckVars, bannerVars, frames, timers>>
    /\ NavFrame

\* handleKeyboard(e); Escape and ctrl+F ask the browser to change the
\* fullscreen state, which answers with a fullscreenchange event
HandleKeyboard(key) ==
    /\ Ready
    /\ event' = Ev("key", IF key \in DOMAIN Digit THEN Digit[key] ELSE -1,
                   IF key \in {"ArrowRight", " "} THEN ~ShowSlideRejects(NextTarget)
                   ELSE IF key = "ArrowLeft" THEN ~ShowSlideRejects(PrevTarget)
                   ELSE IsSlideKey(key) /\ GoToAccepts(Digit[key] - 1))
    /\ IF key \in {"ArrowRight", " "} THEN ShowSlide(NextTarget, timers)
       ELSE IF key = "ArrowLeft" THEN ShowSlide(PrevTarget, timers)
       ELSE IF IsSlideKey(key) /\ Digit[key] - 1 < totalSlides
            THEN GoToSlideBody(Digit[key] - 1)
       ELSE UNCHANGED <<deckVars, bannerVars, frames, timers>>
    /\ NavFrame

\* the deferred showSlide of goToSlide's refresh branch
RefreshTimer(k) ==
    /\ Ready
    /\ Due(k)
    /\ timers[k].kind = "refresh"
    /\ event' = Ev("refresh", timers[k].arg, ~ShowSlideRejects(timers[k].arg))
    /\ ShowSlide(timers[k].arg, RemoveAt(timers, k))
    /\ NavFrame

\* the first timer of showSlide: initAnimations
AnimTimer(k) ==
    /\ Ready
    /\ Due(k)
    /\ timers[k].kind = "anim"
    /\ event' = Ev("anim", currentSlide, FALSE)
    /\ timers' = AnimTimers(RemoveAt(timers, k), variant, numberTargets, ringSlide,
                            currentSlide)
    /\ frames' = AnimFrames(frames, variant, ringSlide, currentSlide)
    /\ ring' = AnimRing(ring, variant, ringSlide, currentSlide)
    /\ UNCHANGED <<configVars, deckVars, envVars, scaleVars, bannerVars, chromeVars,
                   display, frameLeft>>

\* the second timer of showSlide: the unlock
UnlockTimer(k) ==
    /\ Ready
    /\ Due(k)
    /\ timers[k].kind = "unlock"
    /\ event' = Ev("unlock", currentSlide, FALSE)
    /\ isTransitioning' = FALSE
    /\ timers' = RemoveAt(timers, k)
    /\ UNCHANGED <<configVars, currentSlide, slides, indicators, progressBar,
                   envVars, scaleVars, bannerVars, chromeVars, animVars,
                   frames, frameLeft>>

----------------------------------------------------------------------------
(* Resize and fullscreen *)

\* the resize listener of init: debounced in the latest variant, a direct
\* call of scaleToFit in the earliest; vp is the new viewport
Resize(vp) ==
    /\ Ready
    /\ vp # viewport
    /\ viewport' = vp
    /\ event' = Ev("resize", 0, FALSE)
    /\ IF variant = "latest"
       THEN /\ resizeTimeout' = FreshId(ClearTimeout(timers, resizeTimeout),
                                        {sectionIndicatorTimer, mouseTimer})
            /\ timers' = SetTimeoutAs(ClearTimeout(timers, resizeTimeout),
                                      resizeTimeout', "resize", ResizeDebounce, 0)
            /\ UNCHANGED <<isScaling, transform, frames>>
       ELSE /\ Len(frames) < MaxPendingFrames
            /\ ScaleToFit(frames, vp, fullscreen)
            /\ UNCHANGED <<resizeTimeout, timers>>
    /\ UNCHANGED <<configVars, deckVars, fullscreen, bannerVars, chromeVars,
                   animVars, frameLeft>>

\* the debounce timer of the resize listener: scaleToFit
ResizeTimer(k) ==
    /\ Ready
    /\ Due(k)
    /\ timers[k].kind = "resize"
    /\ event' = Ev("resizeTimer", 0, ~ScaleToFitSkips)
    /\ timers' = RemoveAt(timers, k)
    /\ ScaleToFit(frames, viewport, fullscreen)
    /\ UNCHANGED <<configVars, deckVars, envVars, resizeTimeout, bannerVars,
                   chromeVars, animVars, frameLeft>>

\* the browser changes the fullscreen state: handleFullscreenChange; it
\* enters fullscreen again only after the chrome timer of the last entry ran
FullscreenChange ==
    /\ Ready
    /\ Cardinality(Pending(timers, "fsScale")) < MaxPendingFullscreen
    /\ fullscreen \/ Pending(timers, "fsHide") = {}
    /\ fullscreen' = ~fullscreen
    /\ event' = Ev("fullscreenchange", 0, FALSE)
    /\ navFullscreen' = IF hasNavigation THEN ~fullscreen ELSE navFullscreen
    /\ navStyle' = IF variant = "latest" /\ fullscreen THEN ShownStyle ELSE navStyle
    /\ timers' = SetTimeout(IF variant = "latest" /\ ~fullscreen
                            THEN SetTimeout(timers, "fsHide", ChromeIdle, 0)
                            ELSE timers,
                            "fsScale", FullscreenDelay, 0)
    /\ UNCHANGED <<configVars, deckVars, viewport, scaleVars, bannerVars,
                   navTransition, mouseTimer, animVars, frames, frameLeft>>

\* the last timer of handleFullscreenChange: scaleToFit
FsScaleTimer(k) ==
    /\ Ready
    /\ Due(k)
    /\ timers[k].kind = "fsScale"
    /\ variant = "latest" \/ Len(frames) < MaxPendingFrames
    /\ event' = Ev("fsScaleTimer", 0, ~ScaleToFitSkips)
    /\ timers' = RemoveAt(timers, k)
    /\ ScaleToFit(frames, viewport, fullscreen)
    /\ UNCHANGED <<configVars, deckVars, envVars, resizeTimeout, bannerVars,
                   chromeVars, animVars, frameLeft>>

----------------------------------------------------------------------------
(* Time *)

\* time passes by q, or up to the next deadline when that is nearer
Tick(q) ==
    /\ Ready
    /\ timers # <<>>
    /\ \A k \in DOMAIN timers : timers[k].rem > 0
    /\ timers' = [k \in DOMAIN timers |->
                    [timers[k] EXCEPT !.rem = @ - Min2(q, MinRem(timers))]]
    /\ event' = Ev("tick", 0, FALSE)
    /\ UNCHANGED <<configVars, deckVars, envVars, scaleVars, bannerVars, chromeVars,
                   animVars, frames, frameLeft>>

----------------------------------------------------------------------------
(* The state the constructor and init() leave *)

Elements(n, targets) == {<<i, p>> : i \in 0 .. (n - 1), p \in 1 .. MaxCount} \cap
                        {e \in (0 .. (n - 1)) \X (1 .. MaxCount) : e[2] <= Len(targets[e[1]])}

NoNumbers(n) == [i \in 0 .. (n - 1) |-> <<>>]

\* the page marks slide 0 and indicator 0 active; init() runs scaleToFit and
\* then initAnimations; V, N, SI, VP, T are the variants, deck sizes, banner
\* elements, viewports and number elements the specification starts from
InitFrom(V, N, SI, VP, T) ==
    /\ variant \in V
    /\ totalSlides \in N
    /\ hasSectionIndicator \in SI
    /\ hasNavigation = TRUE
    /\ numberTargets \in T
    /\ ringSlide = -1
    /\ currentSlide = 0
    /\ isTransitioning = FALSE
    /\ slides = [i \in SlideIndex |-> IF i = 0 THEN {"active", "slide-index"} ELSE {}]
    /\ indicators = [i \in SlideIndex |-> IF i = 0 THEN {"active"} ELSE {}]
    /\ progressBar = [num |-> 100, den |-> totalSlides]
    /\ viewport \in VP
    /\ fullscreen = FALSE
    /\ transform = [translate |-> TRUE, scale |-> FitScale(viewport, FALSE)]
    /\ isScaling = (variant = "latest" /\ ChecksOverflow(viewport, FALSE))
    /\ resizeTimeout = 0
    /\ frames = AnimFrames(IF ChecksOverflow(viewport, FALSE)
                           THEN <<MkFrame("overflow", FitScale(viewport, FALSE), 0, 0)>>
                           ELSE <<>>,
                           variant, ringSlide, 0)
    /\ frameLeft = 0
    /\ timers = AnimTimers(<<>>, variant, numberTargets, ringSlide, 0)
    /\ bannerClasses = {}
    /\ bannerSection = 0
    /\ sectionIndicatorTimer = 0
    /\ navFullscreen = FALSE
    /\ navStyle = ""
    /\ navTransition = FALSE
    /\ mouseTimer = 0
    /\ display = [e \in Elements(totalSlides, numberTargets) |->
                    [set |-> FALSE, value |-> 0]]
    /\ ring = AnimRing([offset |-> "css", transition |-> "css"], variant, ringSlide, 0)
    /\ event = Ev("init", 0, FALSE)
    /\ cycleStart = 0
    /\ cycleCount = 0
    /\ shown = [e \in Elements(totalSlides, numberTargets) |-> <<>>]
    /\ measured = [right |-> 0, bottom |-> 0, left |-> 0, top |-> 0]

\* a deck without number elements
InitWith(V, N, SI, VP) == InitFrom(V, N, SI, VP, {NoNumbers(totalSlides)})

Variants == {"latest", "earliest"}

\* 1280 by 720 at pixel ratio 2: margin 0.88, no overflow check
ViewportCritical == [w |-> 1280, h |-> 720, dpr |-> 200]
\* 700 by 400: margin 0.96, the scale is clamped to 0.4
ViewportTiny == [w |-> 700, h |-> 400, dpr |-> 100]
\* 820 by 480: margin 0.96, scale 0.41
ViewportSmall == [w |-> 820, h |-> 480, dpr |-> 100]
\* 1920 by 1080: the base size, margin 0.95
ViewportFull == [w |-> baseWidth, h |-> baseHeight, dpr |-> 100]
\* 800 by 450 at pixel ratio 2: margin 0.88, clamped to 0.4, no overflow check
ViewportDense == [w |-> 800, h |-> 450, dpr |-> 200]
\* 1000 by 600: margin 0.96, scale 0.5
ViewportHalf == [w |-> 1000, h |-> 600, dpr |-> 100]

----------------------------------------------------------------------------
(* Specification of the slide deck *)

\* a step that is no part of a series of nextSlide calls
Uncounted(A) == A /\ UNCHANGED <<cycleVars, shown, measured>>

GoToInputs == -1 .. MaxSlides

Keys == {"ArrowRight", "ArrowLeft", "Escape", "0", "1", "2", "9"}

\* the shortest delay of the deck's timers
NavQuantum == RefreshDelay

Init == InitWith(Variants, 1 .. MaxSlides, {FALSE}, {ViewportCritical})

Next ==
    \/ Uncounted(\E i \in GoToInputs : GoToSlide(i))
    \/ Uncounted(NextSlide)
    \/ Uncounted(PrevSlide)
    \/ Uncounted(\E key \in Keys : HandleKeyboard(key))
    \/ Uncounted(\E k \in DOMAIN timers : RefreshTimer(k))
    \/ Uncounted(\E k \in DOMAIN timers : AnimTimer(k))
    \/ Uncounted(\E k \in DOMAIN timers : UnlockTimer(k))
    \/ Uncounted(Tick(NavQuantum))

Spec == Init /\ [][Next]_vars

\* the browser runs a timer that is due, and time passes
SpecFair ==
    /\ Spec
    /\ WF_vars(Uncounted(Tick(NavQuantum)))
    /\ WF_vars(Uncounted(\E k \in DOMAIN timers : RefreshTimer(k)))
    /\ WF_vars(Uncounted(\E k \in DOMAIN timers : AnimTimer(k)))
    /\ WF_vars(Uncounted(\E k \in DOMAIN timers : UnlockTimer(k)))

----------------------------------------------------------------------------
(* Specification of the same-slide refresh: the latest variant, with time *)
(* passing up to the next deadline; the browser runs a timer that is due  *)

InitRefresh == InitWith({"latest"}, 1 .. MaxSlides, {FALSE}, {ViewportCritical})

NextRefresh ==
    \/ Uncounted(\E i \in SlideIndex : GoToSlide(i))
    \/ Uncounted(NextSlide)
    \/ Uncounted(PrevSlide)
    \/ Uncounted(\E k \in DOMAIN timers : RefreshTimer(k))
    \/ Uncounted(\E k \in DOMAIN timers : AnimTimer(k))
    \/ Uncounted(\E k \in DOMAIN timers : UnlockTimer(k))
    \/ Uncounted(Tick(AnimDelay))

SpecRefresh ==
    /\ InitRefresh
    /\ [][NextRefresh]_vars
    /\ WF_vars(Uncounted(Tick(AnimDelay)))
    /\ WF_vars(Uncounted(\E k \in DOMAIN timers : RefreshTimer(k)))
    /\ WF_vars(Uncounted(\E k \in DOMAIN timers : AnimTimer(k)))
    /\ WF_vars(Uncounted(\E k \in DOMAIN timers : UnlockTimer(k)))

----------------------------------------------------------------------------
(* Specification of a series of nextSlide calls: goToSlide picks the slide *)
(* the series starts from, and then only nextSlide is called               *)

\* a navigation other than nextSlide starts a new series
CycleReset ==
    /\ cycleStart' = currentSlide'
    /\ cycleCount' = 0

\* nextSlide called while Idle is one more call of the series
CycleCounted ==
    IF isTransitioning
    THEN UNCHANGED cycleVars
    ELSE IF cycleCount < totalSlides
    THEN /\ cycleCount' = cycleCount + 1
         /\ cycleStart' = cycleStart
    ELSE /\ cycleCount' = 1
         /\ cycleStart' = currentSlide

NextCycle ==
    \/ \E i \in SlideIndex :
          cycleCount = 0 /\ GoToSlide(i) /\ CycleReset /\ UNCHANGED <<shown, measured>>
    \/ NextSlide /\ CycleCounted /\ UNCHANGED <<shown, measured>>
    \/ \E k \in DOMAIN timers :
          /\ RefreshTimer(k)
          /\ IF event'.ok THEN CycleReset ELSE UNCHANGED cycleVars
          /\ UNCHANGED <<shown, measured>>
    \/ \E k \in DOMAIN timers : Uncounted(AnimTimer(k))
    \/ \E k \in DOMAIN timers : Uncounted(UnlockTimer(k))
    \/ Uncounted(Tick(NavQuantum))

SpecCycle == Init /\ [][NextCycle]_vars

----------------------------------------------------------------------------
(* Specifications of the scaling: the latest variant, and the earliest *)

Viewports == {ViewportCritical, ViewportTiny, ViewportFull}

\* the greatest common divisor of ResizeDebounce and FullscreenDelay
ScaleQuantum == ResizeDebounce - FullscreenDelay

InitScale == InitWith({"latest"}, {1}, {FALSE}, Viewports)

NextScale ==
    \/ Uncounted(\E vp \in Viewports : Resize(vp))
    \/ Uncounted(FullscreenChange)
    \/ Uncounted(\E k \in DOMAIN timers : ResizeTimer(k))
    \/ Uncounted(\E k \in DOMAIN timers : FsScaleTimer(k))
    \/ Uncounted(\E k \in DOMAIN timers : HideTimer(k))
    \/ Uncounted(OverflowFrame)
    \/ Uncounted(Tick(ScaleQuantum))

SpecScale == InitScale /\ [][NextScale]_vars

ViewportsEarliest == {ViewportDense, ViewportTiny, ViewportSmall}

InitScaleEarliest == InitWith({"earliest"}, {1}, {FALSE}, ViewportsEarliest)

NextScaleEarliest ==
    \/ Uncounted(\E vp \in ViewportsEarliest : Resize(vp))
    \/ Uncounted(FullscreenChange)
    \/ Uncounted(\E k \in DOMAIN timers : FsScaleTimer(k))
    \/ Uncounted(OverflowFrame)
    \/ Uncounted(RecheckFrame)
    \/ Uncounted(Tick(ScaleQuantum))

SpecScaleEarliest == InitScaleEarliest /\ [][NextScaleEarliest]_vars

----------------------------------------------------------------------------
(* Specification of the margin table: the latest variant loaded in any  *)
(* viewport of a grid around the thresholds of the table, then taken in  *)
(* and out of fullscreen                                                 *)

GridWidths == {700, 1279, 1280, 1281, 1439, 1440, 1599, 1600, baseWidth, 3840}
GridHeights == {400, 719, 720, baseHeight, 2160}
GridRatios == {100, 101, 149, 150, 151, 200}

GridViewports == [w : GridWidths, h : GridHeights, dpr : GridRatios]

InitMargin == InitWith({"latest"}, {1}, {FALSE}, GridViewports)

NextMargin ==
    \/ Uncounted(FullscreenChange)
    \/ Uncounted(\E k \in DOMAIN timers : FsScaleTimer(k))
    \/ Uncounted(\E k \in DOMAIN timers : HideTimer(k))
    \/ Uncounted(OverflowFrame)
    \/ Uncounted(Tick(ScaleQuantum))

SpecMargin == InitMargin /\ [][NextMargin]_vars

----------------------------------------------------------------------------
(* Specification of the overflow check: the latest variant resized among *)
(* viewports, with what every check measures kept in `measured`          *)

ViewportsOverflow == {ViewportFull, ViewportTiny, ViewportHalf}

InitOverflow == InitWith({"latest"}, {1}, {FALSE}, ViewportsOverflow)

\* an overflow check that measures m
Measures(m) == OverflowMeasured(m) /\ measured' = m /\ UNCHANGED <<cycleVars, shown>>

NextOverflow ==
    \/ Uncounted(\E vp \in ViewportsOverflow : Resize(vp))
    \/ Uncounted(\E k \in DOMAIN timers : ResizeTimer(k))
    \/ \E m \in Measurements : Measures(m)
    \/ Uncounted(Tick(ResizeDebounce))

SpecOverflow == InitOverflow /\ [][NextOverflow]_vars

(* variant after the scaleToFit of init(), with no further resize, and   *)
(* the browser running every frame callback that is requested           *)

InitOverflowChain == InitWith({"earliest"}, {1}, {FALSE}, {ViewportHalf, ViewportSmall})

NextOverflowChain ==
    \/ Uncounted(OverflowFrame)
    \/ Uncounted(RecheckFrame)

SpecOverflowChain ==
    /\ InitOverflowChain
    /\ [][NextOverflowChain]_vars
    /\ WF_vars(Uncounted(OverflowFrame))
    /\ WF_vars(Uncounted(RecheckFrame))

----------------------------------------------------------------------------
(* Specification of the section banner: the latest variant, with the *)
(* banner element on the page                                        *)

InitBanner == InitWith({"latest"}, 2 .. MaxSlides, {TRUE}, {ViewportCritical})

\* the greatest common divisor of the delays of showSlide and of the banner
BannerQuantum == BannerFade - AnimDelay

\* a navigation to another slide, made while fewer than MaxPendingFrames
\* frame callbacks wait
Navigates(A) == Len(frames) < MaxPendingFrames /\ Uncounted(A)

NextBanner ==
    \/ Navigates(\E i \in SlideIndex \ {currentSlide} : GoToSlide(i))
    \/ Navigates(NextSlide)
    \/ Navigates(PrevSlide)
    \/ Uncounted(\E k \in DOMAIN timers : AnimTimer(k))
    \/ Uncounted(\E k \in DOMAIN timers : UnlockTimer(k))
    \/ Uncounted(BannerFrame)
    \/ Uncounted(\E k \in DOMAIN timers : BannerHideTimer(k))
    \/ Uncounted(\E k \in DOMAIN timers : BannerFadeTimer(k))
    \/ Uncounted(Tick(BannerQuantum))

SpecBanner == InitBanner /\ [][NextBanner]_vars

----------------------------------------------------------------------------
(* Specification of the navigation chrome: the latest variant in and out *)
(* of fullscreen, with mouse movements and section banners               *)

InitChrome == InitWith({"latest"}, {2}, {TRUE}, {ViewportCritical})

\* time passes up to the next deadline, or by the idle delay
ChromeQuantum == ChromeIdle

\* the page is settled: no timer and no frame callback is pending
Settled == timers = <<>> /\ frames = <<>>

\* no timer of an earlier navigation is pending
Quiet ==
    \A k \in DOMAIN timers :
        timers[k].kind \notin {"anim", "unlock", "bannerHide", "bannerFade", "tempHide"}

\* fullscreen is entered on a settled page, and left at any time
Toggles(A) == (fullscreen \/ Settled) /\ Uncounted(A)

\* a navigation made in fullscreen, after the last one has run its course
Reveals(A) == fullscreen /\ Quiet /\ Navigates(A)

NextChrome ==
    \/ Toggles(FullscreenChange)
    \/ Uncounted(MouseMove)
    \/ Reveals(\E i \in SlideIndex \ {currentSlide} : GoToSlide(i))
    \/ Uncounted(\E k \in DOMAIN timers : HideTimer(k))
    \/ Uncounted(\E k \in DOMAIN timers : FsScaleTimer(k))
    \/ Uncounted(\E k \in DOMAIN timers : AnimTimer(k))
    \/ Uncounted(\E k \in DOMAIN timers : UnlockTimer(k))
    \/ Uncounted(\E k \in DOMAIN timers : BannerHideTimer(k))
    \/ Uncounted(\E k \in DOMAIN timers : BannerFadeTimer(k))
    \/ Uncounted(BannerFrame)
    \/ Uncounted(OverflowFrame)
    \/ Uncounted(Tick(ChromeQuantum))

SpecChrome == InitChrome /\ [][NextChrome]_vars

----------------------------------------------------------------------------
(* Specification of the counters: a deck of one slide with one or two *)
(* number elements, animated by init()                                *)

CounterTargets == (0 - MaxCount + 2) .. (MaxCount - 1)

CounterElements ==
    {[i \in {0} |-> <<a>>] : a \in CounterTargets}
        \cup {[i \in {0} |-> <<a, b>>] : a \in CounterTargets, b \in {MaxCount - 1}}

\* the step of the slowest counter
CounterQuantum == NumberDuration \div (MaxCount - 1)

InitCounter == InitFrom(Variants, {1}, {FALSE}, {ViewportCritical}, CounterElements)

\* a step of a counter writes its value to its element
Written ==
    shown' = [e \in DOMAIN shown |->
                IF display'[e] # display[e]
                THEN Append(shown[e], display'[e].value)
                ELSE shown[e]]

NextCounter ==
    \/ \E k \in DOMAIN timers : IntervalTimer(k) /\ Written /\ UNCHANGED <<cycleVars, measured>>
    \/ Uncounted(Tick(CounterQuantum))

SpecCounter == InitCounter /\ [][NextCounter]_vars

----------------------------------------------------------------------------
(* Specification of restarted counters: a deck of two slides whose first *)
(* slide holds one number element, with navigation while it counts       *)

RestartElements == {[i \in 0 .. 1 |-> IF i = 0 THEN <<MaxCount - 1>> ELSE <<>>]}

InitRestart == InitFrom(Variants, {2}, {FALSE}, {ViewportCritical}, RestartElements)

\* a jump is requested only when no transition is deferred or under way
Unhurried ==
    \A k \in DOMAIN timers : timers[k].kind \notin {"refresh", "unlock"}

NextRestart ==
    \/ Uncounted(\E i \in SlideIndex : Unhurried /\ GoToSlide(i))
    \/ Uncounted(NextSlide)
    \/ Uncounted(PrevSlide)
    \/ Uncounted(\E k \in DOMAIN timers : RefreshTimer(k))
    \/ Uncounted(\E k \in DOMAIN timers : AnimTimer(k))
    \/ Uncounted(\E k \in DOMAIN timers : UnlockTimer(k))
    \/ Uncounted(\E k \in DOMAIN timers : IntervalTimer(k))
    \/ Uncounted(Tick(AnimDelay))

SpecRestart == InitRestart /\ [][NextRestart]_vars

----------------------------------------------------------------------------
(* Properties of the slide deck, under Spec *)

ActiveSlides == {i \in SlideIndex : "active" \in slides[i]}

ActiveIndicators == {i \in SlideIndex : "active" \in indicators[i]}

NavigationOps == {"goToSlide", "nextSlide", "prevSlide"}

\* this step is an accepted showSlide
Accepted == ~isTransitioning /\ isTransitioning'

\* everything the program holds, the histories left out
programVars == <<configVars, deckVars, envVars, scaleVars, bannerVars, chromeVars,
                 animVars, timers, frames, frameLeft>>

\* C1: when a goToSlide(index) with a valid index made while the deck is
\* Idle has taken effect (its showSlide ran, at once or as the deferred
\* refresh), exactly one slide and exactly one indicator are active, and
\* both are the ones at index
C1_GoToSlideActivatesIndex ==
    (event.op \in {"goToSlide", "refresh"} /\ event.ok)
        => (ActiveSlides = {event.arg} /\ ActiveIndicators = {event.arg})

\* a goToSlide to another slide than the first has just been accepted
C1_Witness ==
    /\ event.op = "goToSlide"
    /\ event.ok
    /\ event.arg > 0
    /\ ActiveSlides = {event.arg}

\* C2: while isTransitioning is true, a call of goToSlide(i), nextSlide() or
\* prevSlide() leaves isTransitioning, currentSlide and the active and prev
\* markers of every slide and indicator as they were
C2_NavigationIgnoredWhileTransitioning ==
    [][(isTransitioning /\ event'.op \in NavigationOps)
          => UNCHANGED <<isTransitioning, currentSlide, slides, indicators>>]_vars

\* C3: whenever isTransitioning is false exactly one slide is active, and
\* it is slides[currentSlide]
C3_IdleHasOneActiveSlide ==
    ~isTransitioning => ActiveSlides = {currentSlide}

\* C4: at most one unlock timer and at most one animation-restart timer are
\* pending in every reachable state, and an unlock timer is pending exactly
\* while the deck is transitioning
C4_OneTransitionAtATime ==
    /\ Cardinality(Pending(timers, "unlock")) <= 1
    /\ Cardinality(Pending(timers, "anim")) <= 1
    /\ isTransitioning <=> (Pending(timers, "unlock") # {})

\* nextSlide() has just been turned away by a transition whose two timers
\* are both pending
C4_Witness ==
    /\ event.op = "nextSlide"
    /\ ~event.ok
    /\ isTransitioning
    /\ Pending(timers, "unlock") # {}
    /\ Pending(timers, "anim") # {}

\* C5: 0 <= currentSlide < totalSlides in every reachable state, whatever
\* integers goToSlide is given and whatever keys are pressed
C5_CurrentSlideInRange ==
    /\ currentSlide >= 0
    /\ currentSlide < totalSlides

\* a digit key has just moved the deck to its last slide
C5_Witness ==
    /\ event.op = "key"
    /\ event.ok
    /\ totalSlides > 1
    /\ currentSlide = totalSlides - 1

\* C7: goToSlide(index) with index below 0 or at least totalSlides changes
\* nothing the program holds and schedules no timer and no frame callback
C7_OutOfRangeIgnored ==
    [][(event'.op = "goToSlide"
          /\ (event'.arg < 0 \/ event'.arg >= totalSlides))
          => UNCHANGED programVars]_vars

\* goToSlide(totalSlides) has just been called on an Idle deck
C7_Witness ==
    /\ event.op = "goToSlide"
    /\ event.arg = totalSlides
    /\ ~event.ok
    /\ ~isTransitioning

\* the time left on the unlock timer
UnlockRem(ts) == (ts[CHOOSE k \in Pending(ts, "unlock") : TRUE]).rem

\* C15: an accepted transition sets one unlock timer of 600 units; while
\* the deck is transitioning no input changes the time left on it, only the
\* passing of time does, and only its expiry ends the transition; under
\* SpecFair every transition ends
C15_TransitionEnds ==
    /\ [][Accepted => (/\ Cardinality(Pending(timers', "unlock")) = 1
                       /\ UnlockRem(timers') = UnlockDelay)]_vars
    /\ [][isTransitioning
            => IF event'.op = "unlock"
               THEN UnlockRem(timers) = 0 /\ ~isTransitioning'
               ELSE /\ isTransitioning'
                    /\ IF event'.op = "tick"
                       THEN UnlockRem(timers') < UnlockRem(timers)
                       ELSE UnlockRem(timers') = UnlockRem(timers)]_vars
    /\ isTransitioning ~> ~isTransitioning

\* the unlock timer has just ended a transition during which a navigation
\* request was turned away
C15_Witness ==
    /\ event.op = "unlock"
    /\ ~isTransitioning
    /\ Pending(timers, "unlock") = {}
    /\ Pending(timers, "refresh") # {}

\* C16: a transition that a goToSlide(index) call leads to is made within
\* the call: when the call returns the slide classes, the indicators and
\* currentSlide are those of index, and no timer has to run for them
C16_UpdatesWithinCall ==
    [][(Accepted /\ event'.op \in {"goToSlide", "refresh"})
          => /\ event'.op = "goToSlide"
             /\ ActiveSlides' = {event'.arg}
             /\ ActiveIndicators' = {event'.arg}
             /\ currentSlide' = event'.arg]_vars

\* goToSlide(i) has just been called on slide i itself, with the deck Idle
SameSlideRequested(i) ==
    /\ variant = "latest"
    /\ event.op = "goToSlide"
    /\ event.arg = i
    /\ currentSlide = i
    /\ ~isTransitioning

\* slide i carries the active marker again, the deck is Transitioning on
\* slide i, and the timer that restarts the animations is set
SameSlideRefreshed(i) ==
    /\ currentSlide = i
    /\ isTransitioning
    /\ ActiveSlides = {i}
    /\ Pending(timers, "anim") # {}

\* C29: a goToSlide(currentSlide) called while the deck is Idle leads to a
\* forced refresh of that slide: its active marker is put back, the deck
\* enters Transitioning with currentSlide unchanged, and the animations of
\* the slide are set to restart
C29_SameSlideRefreshes ==
    \A i \in 0 .. (MaxSlides - 1) : SameSlideRequested(i) ~> SameSlideRefreshed(i)

\* the animation-restart timers that are due
DueRestarts == {k \in Pending(timers, "anim") : timers[k].rem = 0}

\* C17: an accepted transition to index sets exactly one animation-restart
\* timer, of 300 units and for index; when it runs the deck is still in
\* that transition, whose unlock is 300 units away, and currentSlide is
\* the index that was requested
C17_RestartAnimatesRequestedSlide ==
    /\ [][Accepted
            => /\ Cardinality(Pending(timers', "anim")) = 1
               /\ \A k \in Pending(timers', "anim") :
                     timers'[k].rem = AnimDelay /\ timers'[k].arg = currentSlide']_vars
    /\ [][event'.op = "anim"
            => /\ Cardinality(DueRestarts) = 1
               /\ \A k \in DueRestarts : timers[k].arg = currentSlide
               /\ isTransitioning
               /\ UnlockRem(timers) = UnlockDelay - AnimDelay
               /\ Pending(timers', "anim") = {}]_vars

\* the animations of another slide than the first have just been restarted,
\* in the middle of the transition to it
C17_Witness ==
    /\ event.op = "anim"
    /\ event.arg > 0
    /\ currentSlide = event.arg
    /\ isTransitioning
    /\ UnlockRem(timers) = UnlockDelay - AnimDelay

\* C30: called while the deck is Idle, nextSlide goes to the slide after
\* currentSlide, and to slide 0 from the last one; prevSlide goes to the slide
\* before it, and to the last one from slide 0; and the slide prevSlide goes
\* to after a nextSlide, or nextSlide after a prevSlide, is the slide the
\* first call left
C30_NextAndPrevWrap ==
    [][/\ (~isTransitioning /\ event'.op = "nextSlide")
            => /\ currentSlide' = IF currentSlide = totalSlides - 1
                                  THEN 0
                                  ELSE currentSlide + 1
               /\ PrevTarget' = currentSlide
               /\ ActiveSlides' = {currentSlide'}
       /\ (~isTransitioning /\ event'.op = "prevSlide")
            => /\ currentSlide' = IF currentSlide = 0
                                  THEN totalSlides - 1
                                  ELSE currentSlide - 1
               /\ NextTarget' = currentSlide
               /\ ActiveSlides' = {currentSlide'}]_vars

\* prevSlide has gone from slide 0 to the last slide of a deck of three
C30_Witness ==
    /\ event.op = "prevSlide"
    /\ event.ok
    /\ totalSlides > 2
    /\ currentSlide = totalSlides - 1
    /\ ActiveSlides = {totalSlides - 1}
    /\ "prev" \in slides[0]

\* C31: an accepted transition to index leaves every slide below index
\* marked prev and not active, the slide at index active and not prev, and
\* every slide above index with neither marker
C31_MarkersByPosition ==
    [][Accepted
          => \A i \in SlideIndex :
                slides'[i] \cap {"active", "prev"} =
                    IF i < currentSlide' THEN {"prev"}
                    ELSE IF i = currentSlide' THEN {"active"}
                    ELSE {}]_vars

\* prevSlide has gone from the last slide of a deck of three to the middle
\* one: the slide below is marked prev, the one above has lost its marker
C31_Witness ==
    /\ event.op = "prevSlide"
    /\ event.ok
    /\ totalSlides = 3
    /\ currentSlide = 1
    /\ slides[0] \cap {"active", "prev"} = {"prev"}
    /\ slides[1] \cap {"active", "prev"} = {"active"}
    /\ slides[2] \cap {"active", "prev"} = {}

\* C32: a digit key d of 1 to 9 with d - 1 < totalSlides acts as
\* goToSlide(d - 1): pressed while the deck is Idle on another slide it
\* starts the transition to slide d - 1, and pressed on slide d - 1 itself
\* in the latest variant it sets the refresh; with d - 1 >= totalSlides, and
\* for the key 0, nothing of the program changes
C32_DigitKeyJumps ==
    [][(event'.op = "key" /\ event'.arg >= 0)
          => IF event'.arg >= 1 /\ event'.arg - 1 < totalSlides
             THEN /\ (~isTransitioning /\ event'.arg - 1 # currentSlide)
                        => /\ Accepted
                           /\ currentSlide' = event'.arg - 1
                           /\ ActiveSlides' = {event'.arg - 1}
                  /\ (variant = "latest" /\ event'.arg - 1 = currentSlide)
                        => /\ "active" \notin slides'[currentSlide]
                           /\ Cardinality(Pending(timers', "refresh"))
                                 = Cardinality(Pending(timers, "refresh")) + 1
             ELSE UNCHANGED programVars]_vars

\* the key 2 has started the transition to slide 1
C32_Witness ==
    /\ event.op = "key"
    /\ event.arg = 2
    /\ event.ok
    /\ currentSlide = 1
    /\ ActiveSlides = {1}
    /\ isTransitioning

----------------------------------------------------------------------------
(* Property of a series of nextSlide calls, under SpecCycle *)

\* C6: after totalSlides consecutive nextSlide() calls, each issued while
\* the deck is Idle, currentSlide is what it was before the first of them
C6_NextSlideCycles ==
    cycleCount = totalSlides => currentSlide = cycleStart

\* a series of totalSlides calls that began at another slide than the
\* first is complete, on a deck of more than one slide
C6_Witness ==
    /\ cycleCount = totalSlides
    /\ totalSlides > 1
    /\ cycleStart > 0
    /\ currentSlide = cycleStart

----------------------------------------------------------------------------
(* Properties of the scaling, under SpecScale and SpecScaleEarliest *)

ScaleTriggers == {"resizeTimer", "fsScaleTimer"}

\* C8: the scale checkAndFixOverflow applies is never below 0.4
C8_AdjustedScaleAtLeastMin ==
    (event.op \in {"overflowCheck", "recheck"}) => transform.scale >= minScale

\* C9: while isScaling is true, a scaleToFit trigger (the resize debounce
\* timer or the fullscreen-change timer) returns without changing the
\* transform and without requesting a frame callback, and isScaling stays
C9_TriggerSkippedWhileScaling ==
    [][(isScaling /\ event'.op \in ScaleTriggers)
          => UNCHANGED <<transform, frames, isScaling>>]_vars

\* the fullscreen-change timer has just called scaleToFit in a viewport
\* whose scale differs from the applied one, and the call was skipped
C9_Witness ==
    /\ event.op = "fsScaleTimer"
    /\ ~event.ok
    /\ isScaling
    /\ frames # <<>>
    /\ transform.scale # FitScale(viewport, fullscreen)

\* C14: with a viewport of 1920 by 1080, pixel ratio 1 and not in
\* fullscreen, a scaleToFit that is not skipped applies the scale 0.95
\* (950000 millionths) with the centering translate
C14_BaseViewportScale ==
    (/\ event.op \in ScaleTriggers
     /\ event.ok
     /\ viewport = [w |-> 1920, h |-> 1080, dpr |-> 100]
     /\ ~fullscreen)
        => transform = [translate |-> TRUE, scale |-> 950000]

\* the resize timer has just run scaleToFit in the 1920 by 1080 viewport,
\* after another scale had been applied
C14_Witness ==
    /\ event.op = "resizeTimer"
    /\ event.ok
    /\ viewport = ViewportFull
    /\ ~fullscreen
    /\ transform.scale = 950000

\* the scales one scaleToFit and its overflow check can leave in the
\* viewport vp and the fullscreen state fs
DerivedScales(vp, fs) ==
    {FitScale(vp, fs)}
        \cup {AdjustedScale(FitScale(vp, fs), m) : m \in {n \in Measurements : HasOverflow(n)}}

\* C18: once every pending timer and frame callback has run, the transform
\* is the one derived from the current viewport and fullscreen state
C18_SettledTransformIsCurrent ==
    (timers = <<>> /\ frames = <<>>)
        => /\ transform.translate
           /\ transform.scale \in DerivedScales(viewport, fullscreen)

\* C19: every transform on the presentation surface has the centering
\* translate, whether scaleToFit or the overflow correction wrote it
C19_TransformKeepsTranslate == transform.translate

\* C25: in the latest variant a scaleToFit that is not skipped and chooses a
\* margin above MarginCheck requests one overflow check while none is
\* pending; the check runs once, leaves the scale or applies one factor to
\* it, and requests no further check
C25_OneOverflowPass ==
    [][/\ (event'.op \in ScaleTriggers /\ event'.ok
              /\ Margin(viewport, fullscreen) > MarginCheck)
            => /\ frames = <<>>
               /\ Len(frames') = 1
               /\ frames'[1].kind = "overflow"
       /\ event'.op = "overflowCheck"
            => /\ frames' = <<>>
               /\ ~isScaling'
               /\ transform'.scale \in
                     {transform.scale,
                      (transform.scale * FactorSmall) \div 100,
                      (transform.scale * FactorLarge) \div 100}]_vars

\* the overflow check has reduced the scale and nothing is pending
C25_Witness ==
    /\ event.op = "overflowCheck"
    /\ transform.scale < event.arg
    /\ frames = <<>>
    /\ timers = <<>>
    /\ ~isScaling

\* the overflow checks that wait for the next frame
OverflowChecks == {k \in DOMAIN frames : frames[k].kind = "overflow"}

\* C33: in the latest variant isScaling is true if and only if exactly one
\* overflow check is pending, and never more than one is; the check that is
\* pending carries the scale of the transform, so no two checks correct the
\* same computation
C33_ScalingIffOneCheckPending ==
    /\ isScaling <=> Cardinality(OverflowChecks) = 1
    /\ Cardinality(OverflowChecks) <= 1
    /\ \A k \in OverflowChecks : frames[k].arg = transform.scale

\* the resize timer has called scaleToFit while the one overflow check of
\* an earlier call was pending, and was turned away
C33_Witness ==
    /\ event.op = "resizeTimer"
    /\ ~event.ok
    /\ isScaling
    /\ Cardinality(OverflowChecks) = 1

\* the rows of the margin table: the condition of a row, and its margin in
\* hundredths
TableRows(vp, fs) ==
    << [when |-> fs, margin |-> 100],
       [when |-> vp.w <= 1280 /\ vp.dpr >= 150, margin |-> 88],
       [when |-> vp.w < 1280 \/ vp.h < 720, margin |-> 96],
       [when |-> vp.w < 1600 /\ (vp.dpr > 100 \/ vp.w < 1440), margin |-> 92],
       [when |-> vp.dpr > 150, margin |-> 94],
       [when |-> TRUE, margin |-> 95] >>

\* the margin of the first row that matches
TableMargin(vp, fs) ==
    LET rows == TableRows(vp, fs)
        first == CHOOSE k \in DOMAIN rows :
                    rows[k].when /\ \A j \in 1 .. (k - 1) : ~rows[j].when
    IN rows[first].margin

\* clamp(min(w / 1920, h / 1080) * margin, 0.4, 1.5) in millionths, rounded
\* down: 10^4 / 1920 = 125 / 24 and 10^4 / 1080 = 250 / 27
TableScale(vp, fs) ==
    LET byWidth == (vp.w * TableMargin(vp, fs) * 125) \div 24
        byHeight == (vp.h * TableMargin(vp, fs) * 250) \div 27
        scale == IF byWidth < byHeight THEN byWidth ELSE byHeight
    IN IF scale < 400000 THEN 400000
       ELSE IF scale > 1500000 THEN 1500000
       ELSE scale

\* scaleToFit has just run to its end: in init(), or called by a timer and
\* not skipped
ScaleApplied == event.op = "init" \/ (event.op \in ScaleTriggers /\ event.ok)

\* C26: the scale scaleToFit applies is the one of the margin table, for the
\* viewport and the fullscreen state it runs in; at 1280 by 720 with pixel
\* ratio 2 and not in fullscreen the margin is 0.88
C26_ScaleFollowsTable ==
    /\ ScaleApplied
          => transform = [translate |-> TRUE, scale |-> TableScale(viewport, fullscreen)]
    /\ (ScaleApplied /\ viewport = ViewportCritical /\ ~fullscreen)
          => transform.scale = (2 * 88 * 1000000) \div 300

\* scaleToFit has run in fullscreen in the viewport of 1280 by 720 at pixel
\* ratio 2, where the table gives 0.88 out of fullscreen
C26_Witness ==
    /\ event.op = "fsScaleTimer"
    /\ event.ok
    /\ fullscreen
    /\ viewport = ViewportCritical
    /\ transform.scale = (2 * 1000000) \div 3

\* C27: a scaleToFit that is not skipped requests an overflow check, and
\* keeps isScaling set, exactly when the margin of the table is above 0.90;
\* with the margin 0.88 it requests nothing and leaves isScaling false
C27_OverflowCheckIffMarginAbove ==
    [][(event'.op \in ScaleTriggers /\ event'.ok)
          => IF TableMargin(viewport, fullscreen) > 90
             THEN /\ Len(frames') = Len(frames) + 1
                  /\ frames'[Len(frames')].kind = "overflow"
                  /\ isScaling'
                  /\ TableMargin(viewport, fullscreen) # 88
             ELSE /\ frames' = frames
                  /\ ~isScaling'
                  /\ TableMargin(viewport, fullscreen) = 88]_vars

\* scaleToFit has run out of fullscreen with the margin 0.88: no overflow
\* check is pending and isScaling is false
C27_Witness ==
    /\ event.op = "fsScaleTimer"
    /\ event.ok
    /\ ~fullscreen
    /\ TableMargin(viewport, fullscreen) = 88
    /\ frames = <<>>
    /\ ~isScaling

\* the largest of the four overshoots measured
LargestOvershoot(m) ==
    CHOOSE x \in {m.right, m.bottom, m.left, m.top} :
        \A y \in {m.right, m.bottom, m.left, m.top} : y <= x

\* C28: checkAndFixOverflow leaves the transform as it is when no edge
\* overshoots the viewport by more than 2; otherwise it applies the scale it
\* was given times 0.96 when the largest overshoot is above 20, and times
\* 0.98 when it is not
C28_FactorByOvershoot ==
    [][event'.op = "overflowCheck"
          => IF LargestOvershoot(measured') <= 2
             THEN transform' = transform
             ELSE IF LargestOvershoot(measured') > 20
             THEN transform'.scale = (frames[1].arg * 96) \div 100
             ELSE transform'.scale = (frames[1].arg * 98) \div 100]_vars

\* a check has measured an overshoot above 20 on the bottom edge only and
\* has applied the factor 0.96
C28_Witness ==
    /\ event.op = "overflowCheck"
    /\ measured.bottom > 20
    /\ measured.right <= 2
    /\ transform.scale = (event.arg * 96) \div 100


PassRequested ==
    /\ event'.op \in {"overflowCheck", "recheck"}
    /\ frames' # <<>>
    /\ frames'[Len(frames')].kind = "recheck"

\* C24: in the earliest variant a pass of the chain requests another one only
\* after it measured an overflow and reduced the scale, a repeated pass only
\* when the scale it was given is above minScale, and the chain ends: at
\* some point no frame callback is pending
C24_OverflowChainTerminates ==
    /\ [][PassRequested
             => /\ frames'[Len(frames')].arg < frames[1].arg
                /\ transform'.scale = frames'[Len(frames')].arg
                /\ event'.op = "recheck" => frames[1].arg > minScale]_vars
    /\ <>(frames = <<>>)

\* the chain has ended on a pass whose scale was no longer above minScale
C24_Witness ==
    /\ frames = <<>>
    /\ event.op = "recheck"
    /\ event.arg <= minScale
    /\ transform.scale = event.arg

\* C10: a resize event does not recompute the scale; it leaves exactly one
\* debounce timer pending, due ResizeDebounce later, so that a burst of
\* events less than ResizeDebounce apart triggers scaleToFit once, with
\* the timer of the last event
C10_ResizeDebounced ==
    [][(event'.op = "resize")
          => /\ UNCHANGED <<transform, frames, isScaling>>
             /\ Cardinality(Pending(timers', "resize")) = 1
             /\ \A k \in Pending(timers', "resize") :
                    timers'[k].rem = ResizeDebounce]_vars

----------------------------------------------------------------------------
(* Properties of the section banner, under SpecBanner *)

StartSlides == {Sections[k].startSlide : k \in DOMAIN Sections}

\* this step ran showSectionIndicator past its existence check: a frame
\* callback that shows the banner is requested and the hide timer is set
BannerTriggered ==
    /\ Len(frames') = Len(frames) + 1
    /\ frames'[Len(frames')].kind = "banner"
    /\ Cardinality(Pending(timers', "bannerHide")) = 1

BannerHidden == bannerClasses \cap {"active", "fade-out"} = {}

\* C11: a step triggers the section banner if and only if it is an accepted
\* transition to a slide that is the startSlide of a configured section and
\* is not slide 0
C11_BannerIffSectionStart ==
    [][BannerTriggered
          <=> (Accepted /\ currentSlide' \in StartSlides /\ currentSlide' # 0)]_vars

\* an accepted transition to the start of the first section has just
\* triggered the banner, on a deck that also has a slide starting no section
C11_Witness ==
    /\ event.ok
    /\ currentSlide = Sections[1].startSlide
    /\ totalSlides > 2
    /\ frames # <<>>
    /\ frames[Len(frames)].kind = "banner"
    /\ bannerSection = Sections[1].number

\* C12: once every pending timer and frame callback has run, the banner is
\* hidden: neither active nor fade-out
C12_BannerHiddenWhenSettled ==
    (timers = <<>> /\ frames = <<>>) => BannerHidden

\* C21: while the 1000-unit timer of the banner shown last is pending, no
\* timer removes the banner: a fade-out timer that runs then belongs to an
\* earlier banner and leaves the active marker alone
C21_NewBannerOutlivesOldTimers ==
    [][(event'.op = "bannerFade"
            /\ Pending(timers, "bannerHide") # {}
            /\ "active" \in bannerClasses)
          => "active" \in bannerClasses']_vars

----------------------------------------------------------------------------
(* Properties of the navigation chrome, under SpecChrome *)

\* the chrome is shown: showNavigation has cleared its inline style
ChromeShown == navStyle = ""

\* the chrome is hidden: hideNavigationInFullscreen has set its inline style
ChromeHidden == navStyle = "hidden"

\* the time left on the idle timer of the mouse movement made last, or 0
\* when that timer has run or no movement was made
IdleLeft ==
    IF \E k \in DOMAIN timers : timers[k].kind = "mouse"
    THEN timers[CHOOSE k \in DOMAIN timers : timers[k].kind = "mouse"].rem
    ELSE 0

\* C22: in fullscreen a mouse movement shows the chrome and leaves one idle
\* timer, set to ChromeIdle; and a step hides the chrome only when ChromeIdle
\* has passed since the mouse movement made last
C22_HiddenOnlyAfterIdle ==
    [][/\ (event'.op = "mousemove" /\ fullscreen)
            => /\ ChromeShown'
               /\ Cardinality(Pending(timers', "mouse")) = 1
               /\ IdleLeft' = ChromeIdle
       /\ (~ChromeHidden /\ ChromeHidden') => IdleLeft = 0]_vars

\* C23: out of fullscreen the chrome is shown, whatever timer runs
C23_ShownOutOfFullscreen == ~fullscreen => ChromeShown

\* a timer that was set in fullscreen has run after fullscreen was left
C23_Witness ==
    /\ ~fullscreen
    /\ event.op \in {"fsHide", "tempHide", "mouse"}
    /\ ChromeShown

----------------------------------------------------------------------------
(* Properties of the counters, under SpecCounter *)

\* the sequence a, a + 1, ..., b
SeqUpTo(a, b) == [j \in 1 .. (b - a + 1) |-> a + j - 1]

IsPrefix(s, t) == Len(s) <= Len(t) /\ \A j \in 1 .. Len(s) : s[j] = t[j]

Target(e) == numberTargets[e[1]][e[2]]

\* the interval of element e has not been cleared
Running(e) == \E k \in DOMAIN timers : timers[k].kind = "interval" /\ timers[k].el = e

\* C13 as stated: a counter animated from 0 to a positive target N displays
\* the N + 1 values 0, 1, ..., N in this order, each once, and ends at N
C13_DisplaysZeroToTarget ==
    \A e \in DOMAIN shown :
        Target(e) > 0
            => /\ IsPrefix(shown[e], SeqUpTo(0, Target(e)))
               /\ ~Running(e) => shown[e] = SeqUpTo(0, Target(e))

\* C13 amended: a counter animated from 0 to a positive target N displays
\* the N values 1, 2, ..., N in this order, each once, and ends at N; the
\* start value 0 is never written to the element
C13_DisplaysOneToTarget ==
    \A e \in DOMAIN shown :
        Target(e) > 0
            => /\ IsPrefix(shown[e], SeqUpTo(1, Target(e)))
               /\ ~Running(e) => /\ shown[e] = SeqUpTo(1, Target(e))
                                 /\ display[e] = [set |-> TRUE, value |-> Target(e)]

\* the counter of the largest target has finished
C13_Witness ==
    \E e \in DOMAIN shown :
        /\ Target(e) = MaxCount - 1
        /\ ~Running(e)
        /\ Len(shown[e]) = Target(e)
        /\ display[e].value = Target(e)

\* C20: for every integer target the counter never displays a value past
\* the target, and its interval is cleared exactly when the displayed value
\* equals the target
C20_StopsAtTarget ==
    \A e \in DOMAIN shown :
        /\ \A j \in 1 .. Len(shown[e]) :
              IF Target(e) >= 0
              THEN shown[e][j] >= 0 /\ shown[e][j] <= Target(e)
              ELSE shown[e][j] <= 0 /\ shown[e][j] >= Target(e)
        /\ ~Running(e) <=> (shown[e] # <<>> /\ shown[e][Len(shown[e])] = Target(e))

----------------------------------------------------------------------------
(* Property of restarted counters, under SpecRestart *)

\* the interval timers that write to number element e
IntervalsOf(e) == {k \in DOMAIN timers : timers[k].kind = "interval" /\ timers[k].el = e}

\* C34: at most one interval timer runs for a number element at any time,
\* and a step of a counter with a positive target never writes a value below
\* the one its element shows, unless that one is the target
C34_OneIntervalPerElement ==
    /\ [](\A e \in DOMAIN display : Cardinality(IntervalsOf(e)) <= 1)
    /\ [][\A e \in DOMAIN display :
             (event'.op = "interval" /\ display'[e] # display[e]
                  /\ display[e].set /\ Target(e) > 0
                  /\ display[e].value # Target(e))
                => display'[e].value >= display[e].value]_vars

====
